---- MODULE Spec2Model ----
(***************************************************************************)
(* Safety Equipment Tracker (src/final.py): the Employee / Equipment /     *)
(* Issue tables, the browser session and one action per Flask route.  Each *)
(* request runs to completion (one action = one handler including its      *)
(* commit), except in SpecRace, where the server threads interleave and a  *)
(* handler is two steps: its reads and its commit.  Text values are        *)
(* sequences of tokens: the token " " is a blank and every other token is  *)
(* a run of non-blank characters.  Dates are day numbers.                  *)
(***************************************************************************)
EXTENDS Integers, Sequences, FiniteSets, TLC

VARIABLES employee, equipment, issue, session, outcome, lastToggle,
          other, today, near_days, flagged, inflight

vars == <<employee, equipment, issue, session, outcome, lastToggle,
          other, today, near_days, flagged, inflight>>

\* the three tables of the Entity Store
store == <<employee, equipment, issue>>

\* what no run-to-completion handler writes: the session cookie held by a
\* second browser, the calendar day date.today() returns, the threshold read
\* from the environment when the module is loaded, the requests the server
\* threads hold between their reads and their commit
ambient == <<other, today, near_days, inflight>>

\* ---------------------------------------------------------------- bounds
MaxEmp == 2
MaxEq == 1
MaxIssue == 2
MaxTime == 2
MaxDay == 3
MaxThread == 2

\* ------------------------------------------------------ program constants
\* SQL NULL / Python None in a nullable column or an absent session key.
NULL == 0

\* os.getenv("ADMIN_PIN", "1234")
ADMIN_PIN == <<"1234">>

\* os.getenv("NEAR_EXPIRY_DAYS", 30)
NEAR_EXPIRY_DAYS == 30

\* ------------------------------------------------------------ input sets
EmpIds == 1..MaxEmp
EqIds == 1..MaxEq
IssueIds == 1..MaxIssue

\* datetime.utcnow() as read by a handler: the clock is an input of the
\* request (the handlers store the reading and never compare it)
Times == 1..MaxTime

\* the <int:...> ids a URL or a form can name; a table that is not full has
\* ids among them that name no row
UrlEmpIds == EmpIds
UrlEqIds == EqIds
UrlIssueIds == IssueIds

Methods == {"GET", "POST"}

\* request.form.get(key) of a field the form does not carry
Absent == <<"None">>

CodeInputs == {Absent, <<" ">>, <<"E1001">>, <<" ", "E1001", " ">>, <<"E1002">>}
NameInputs == {Absent, <<" ">>, <<"Asha">>}
PinInputs == {Absent, <<"1234", " ">>, <<"0000">>}
EqNameInputs == {<<>>, <<"Helmet">>}
DescInputs == {Absent, <<" ">>, <<"strap", " ", "broken">>, <<" ", "strap", " ", "broken">>}
ExpiryInputs == {Absent, <<>>, <<"date", 10>>, <<"junk">>}
EmpIdInputs == {Absent, <<>>, <<"junk">>} \cup {<<"int", n>> : n \in UrlEmpIds}

\* the form a request carries: a GET carries none
FormOf(method, inputs) == IF method = "GET" THEN {Absent} ELSE inputs

\* ------------------------------------------------------------ pure helpers
\* value = request.form.get(key) or ""
OrEmpty(v) == IF v = Absent THEN <<>> ELSE v

RECURSIVE LStrip(_)
LStrip(s) == IF s # <<>> /\ Head(s) = " " THEN LStrip(Tail(s)) ELSE s

RECURSIVE RStrip(_)
RStrip(s) == IF s # <<>> /\ s[Len(s)] = " " THEN RStrip(SubSeq(s, 1, Len(s) - 1)) ELSE s

\* str.strip()
Strip(s) == RStrip(LStrip(s))

\* (request.form.get(key) or "").strip()
FormText(v) == Strip(OrEmpty(v))

SetMax(S) == CHOOSE m \in S : \A x \in S : x <= m

\* the id an INTEGER PRIMARY KEY column gives an inserted row (SQLite rowid:
\* one more than the largest id in the table)
NewId(rows) == IF DOMAIN rows = {} THEN 1 ELSE SetMax(DOMAIN rows) + 1

\* db.session.add(row); commit
Insert(rows, id, row) == [k \in (DOMAIN rows) \cup {id} |-> IF k = id THEN row ELSE rows[k]]

\* db.session.delete(row); commit
Delete(rows, id) == [k \in (DOMAIN rows) \ {id} |-> rows[k]]

\* session.get("is_admin") / session.get("employee_id") truthiness
IsAdmin == session.is_admin
HasEmployee == session.employee_id # NULL

\* a session cookie without keys: session.get(...) gives None for each
EmptySession == [employee_id |-> NULL, employee_name |-> <<>>, is_admin |-> FALSE]

\* a login that does not clear the session first
ClearedSession_kept == session

\* session.clear()
ClearedSession == EmptySession

\* how a request ended: "ok" (a page, or the redirect after success),
\* "ValidationError" (flash() of a rejection, then a redirect or the form
\* again), "Unauthorized:admin_login" and "Unauthorized:login" (a guard
\* redirected to that login page), "NotFound" (get_or_404), "BadRequest"
\* (400, a form key is missing), "ServerError" (500, an exception left the
\* view)
Outcomes == {"ok", "ValidationError", "Unauthorized:admin_login", "Unauthorized:login",
             "NotFound", "BadRequest", "ServerError"}

\* a lookup that finds nobody: add_employee without its duplicate check
EmployeesByCode_none(code) == {}

\* Employee.query.filter_by(employee_code=code).first()
EmployeesByCode(code) == {e \in DOMAIN employee : employee[e].employee_code = code}

\* app.run(debug=True): the development server answers each request on a
\* thread of its own
Threads == 1..MaxThread

\* a thread that holds no request
Idle == [op |-> "idle"]

\* ------------------------------------------------------------------ Init
\* db.create_all() on a fresh database, new browser sessions, the default
\* threshold; day numbers count from the day the server starts
Init ==
    /\ employee = <<>>
    /\ equipment = <<>>
    /\ issue = <<>>
    /\ session = EmptySession
    /\ outcome = "ok"
    /\ lastToggle = <<>>
    /\ other = EmptySession
    /\ today = 0
    /\ near_days = NEAR_EXPIRY_DAYS
    /\ flagged = {}
    /\ inflight = [w \in Threads |-> Idle]

\* ------------------------------------------------------------ Access gate
\* flash("Admin access required."); return redirect(url_for("admin_login"))
\* flash("Please log in ..."); return redirect(url_for("login"))
Refused(login_page) ==
    /\ outcome' = login_page
    /\ flagged' = {}
    /\ UNCHANGED <<store, session, lastToggle, ambient>>

\* a wrapper that lets every session through
admin_required_open(view) == view

\* @admin_required: the wrapper answers itself unless the session is admin
admin_required(view) ==
    \/ ~IsAdmin /\ Refused("Unauthorized:admin_login")
    \/ IsAdmin /\ view

\* @login_required: the wrapper answers itself unless the session names an
\* employee
login_required(view) ==
    \/ ~HasEmployee /\ Refused("Unauthorized:login")
    \/ HasEmployee /\ view

\* POST /login
login(method, code_raw) ==
    /\ UNCHANGED <<employee, equipment, issue, lastToggle, ambient>>
    /\ flagged' = {}
    /\ IF method = "POST" /\ EmployeesByCode(FormText(code_raw)) # {}
       THEN LET emp == CHOOSE e \in EmployeesByCode(FormText(code_raw)) : TRUE
            IN /\ session' = [ClearedSession EXCEPT !.employee_id = emp,
                                                    !.employee_name = employee[emp].name]
               /\ outcome' = "ok"
       ELSE /\ session' = session
            /\ outcome' = IF method = "POST" THEN "ValidationError" ELSE "ok"

\* GET /logout
logout ==
    /\ session' = ClearedSession
    /\ outcome' = "ok"
    /\ flagged' = {}
    /\ UNCHANGED <<employee, equipment, issue, lastToggle, ambient>>

\* /admin/login
admin_login(method, pin_raw) ==
    /\ UNCHANGED <<employee, equipment, issue, lastToggle, ambient>>
    /\ flagged' = {}
    /\ IF method = "POST" /\ FormText(pin_raw) = ADMIN_PIN
       THEN /\ session' = [ClearedSession EXCEPT !.is_admin = TRUE]
            /\ outcome' = "ok"
       ELSE /\ session' = session
            /\ outcome' = IF method = "POST" THEN "ValidationError" ELSE "ok"

\* ------------------------------------------------------------- Employees
\* /employees/add
add_employee(method, name_raw, code_raw) ==
    /\ UNCHANGED <<equipment, issue, session, lastToggle, ambient>>
    /\ flagged' = {}
    /\ LET name == FormText(name_raw)
           code == FormText(code_raw)
       IN  IF method = "GET"
           THEN /\ employee' = employee
                /\ outcome' = "ok"
           ELSE IF name = <<>> \/ code = <<>>
           THEN /\ employee' = employee
                /\ outcome' = "ValidationError"
           ELSE IF EmployeesByCode(code) # {}
           THEN /\ employee' = employee
                /\ outcome' = "ValidationError"
           ELSE /\ NewId(employee) \in EmpIds
                /\ employee' = Insert(employee, NewId(employee),
                                      [employee_code |-> code, name |-> name])
                /\ outcome' = "ok"

\* a removal without the unassign loop
UnassignAll_none(emp_id) == equipment

\* for eq in emp.equipments: eq.employee_id = None
UnassignAll(emp_id) ==
    [e \in DOMAIN equipment |->
        IF equipment[e].employee_id = emp_id
        THEN [equipment[e] EXCEPT !.employee_id = NULL]
        ELSE equipment[e]]

\* db.session.delete(emp) with the Employee.issues relationship (no delete
\* cascade): the ORM sets raised_by_employee_id of the employee's issues
\* to NULL when it flushes the delete
OrphanIssues(emp_id) ==
    [i \in DOMAIN issue |->
        IF issue[i].raised_by_employee_id = emp_id
        THEN [issue[i] EXCEPT !.raised_by_employee_id = NULL]
        ELSE issue[i]]

\* /employees/remove/<int:emp_id>
remove_employee(emp_id) ==
    /\ UNCHANGED <<session, lastToggle, ambient>>
    /\ flagged' = {}
    /\ IF emp_id \notin DOMAIN employee
       THEN /\ UNCHANGED <<employee, equipment, issue>>
            /\ outcome' = "NotFound"
       ELSE /\ equipment' = UnassignAll(emp_id)
            /\ issue' = OrphanIssues(emp_id)
            /\ employee' = Delete(employee, emp_id)
            /\ outcome' = "ok"

\* ------------------------------------------------------------- Equipment
\* the text is a well-formed %Y-%m-%d date: <<"date", day number>>
IsDateText(raw) == Len(raw) = 2 /\ raw[1] = "date"

\* datetime.strptime(expiry_raw, "%Y-%m-%d").date()
ParseDate(raw) == raw[2]

\* Equipment(name=name, expiry_date=expiry_date) with the column defaults
NewEquipment(name, expiry_date) ==
    [name |-> name, expiry_date |-> expiry_date, employee_id |-> NULL,
     is_retired |-> FALSE, retired_on |-> NULL]

\* /equipment/add
add_equipment(method, name_raw, expiry_raw) ==
    /\ UNCHANGED <<employee, issue, session, ambient>>
    /\ flagged' = {}
    /\ LET name == FormText(name_raw)
       IN  IF method = "GET"
           THEN /\ UNCHANGED <<equipment, lastToggle>>
                /\ outcome' = "ok"
           ELSE IF name = <<>> \/ expiry_raw = Absent \/ expiry_raw = <<>>
           THEN /\ UNCHANGED <<equipment, lastToggle>>
                /\ outcome' = "ValidationError"
           ELSE IF ~IsDateText(expiry_raw)
           THEN /\ UNCHANGED <<equipment, lastToggle>>
                /\ outcome' = "ServerError"
           ELSE /\ NewId(equipment) \in EqIds
                /\ equipment' = Insert(equipment, NewId(equipment),
                                       NewEquipment(name, ParseDate(expiry_raw)))
                /\ lastToggle' = Insert(lastToggle, NewId(equipment), "none")
                /\ outcome' = "ok"

\* the text is a decimal integer: <<"int", n>>
IsIntText(raw) == Len(raw) = 2 /\ raw[1] = "int"

\* int(request.form["employee_id"])
ParseInt(raw) == raw[2]

\* an assign view without the retirement check
CanAssign_always(row) == TRUE

\* if eq.is_retired: flash(...); return redirect(...)   (assign_equipment)
CanAssign(row) == ~row.is_retired

\* /equipment/assign/<int:eq_id>
assign_equipment(eq_id, method, emp_raw) ==
    /\ UNCHANGED <<employee, issue, session, lastToggle, ambient>>
    /\ flagged' = {}
    /\ IF eq_id \notin DOMAIN equipment
       THEN /\ equipment' = equipment
            /\ outcome' = "NotFound"
       ELSE IF ~CanAssign(equipment[eq_id])
       THEN /\ equipment' = equipment
            /\ outcome' = "ValidationError"
       ELSE IF method = "GET"
       THEN /\ equipment' = equipment
            /\ outcome' = "ok"
       ELSE IF emp_raw = Absent
       THEN /\ equipment' = equipment
            /\ outcome' = "BadRequest"
       ELSE IF ~IsIntText(emp_raw)
       THEN /\ equipment' = equipment
            /\ outcome' = "ServerError"
       ELSE /\ equipment' = [equipment EXCEPT ![eq_id].employee_id = ParseInt(emp_raw)]
            /\ outcome' = "ok"

\* ---------------------------------------------------------------- Issues
\* Issue(equipment_id=eq.id, description=desc) with the column defaults
NewIssue(eq_id, desc, now) ==
    [equipment_id |-> eq_id, description |-> desc, raised_on |-> now,
     raised_by_employee_id |-> NULL, is_resolved |-> FALSE, resolved_on |-> NULL]

\* a raise view that never records who raised the issue
WithRaiser_never(row) == row

\* if session.get("employee_id"): issue.raised_by_employee_id = session["employee_id"]
WithRaiser(row) ==
    IF HasEmployee
    THEN [row EXCEPT !.raised_by_employee_id = session.employee_id]
    ELSE row

\* a raise view without the retirement check
AcceptsIssues_always(row) == TRUE

\* if eq.is_retired: flash(...); return redirect(...)   (raise_issue)
AcceptsIssues(row) == ~row.is_retired

\* /issues/raise/<int:eq_id>   (no guard: any principal)
raise_issue(eq_id, method, desc_raw, now) ==
    /\ UNCHANGED <<employee, equipment, session, lastToggle, ambient>>
    /\ flagged' = {}
    /\ IF eq_id \notin DOMAIN equipment
       THEN /\ issue' = issue
            /\ outcome' = "NotFound"
       ELSE IF ~AcceptsIssues(equipment[eq_id])
       THEN /\ issue' = issue
            /\ outcome' = "ValidationError"
       ELSE IF method = "GET"
       THEN /\ issue' = issue
            /\ outcome' = "ok"
       ELSE IF FormText(desc_raw) = <<>>
       THEN /\ issue' = issue
            /\ outcome' = "ValidationError"
       ELSE /\ NewId(issue) \in IssueIds
            /\ issue' = Insert(issue, NewId(issue),
                               WithRaiser(NewIssue(eq_id, FormText(desc_raw), now)))
            /\ outcome' = "ok"

\* a toggle that flips the flag and always stamps resolved_on
ToggleIssue_alwaysStamps(row, now) ==
    [row EXCEPT !.is_resolved = ~row.is_resolved, !.resolved_on = now]

\* issue.is_resolved = not issue.is_resolved
\* issue.resolved_on = datetime.utcnow() if issue.is_resolved else None
ToggleIssue(row, now) ==
    [row EXCEPT !.is_resolved = ~row.is_resolved,
                !.resolved_on = IF ~row.is_resolved THEN now ELSE NULL]

\* a retirement that keeps the assignment
RetireEquipment_keepsOwner(row, now) ==
    [row EXCEPT !.is_retired = TRUE, !.retired_on = now]

\* a retirement that unassigns but does not set the flag
RetireEquipment_onlyUnassigns(row, now) ==
    [row EXCEPT !.employee_id = NULL]

\* eq.employee_id = None; eq.is_retired = True; eq.retired_on = datetime.utcnow()
RetireEquipment(row, now) ==
    [row EXCEPT !.employee_id = NULL, !.is_retired = TRUE, !.retired_on = now]

\* a reactivation that leaves the retirement stamp behind
ReactivateEquipment_keepsStamp(row) ==
    [row EXCEPT !.is_retired = FALSE]

\* a reopen with the three reactivation lines commented out
ReactivateEquipment_never(row) == row

\* eq.is_retired = False; eq.retired_on = None
ReactivateEquipment(row) ==
    [row EXCEPT !.is_retired = FALSE, !.retired_on = NULL]

\* /issues/resolve/<int:issue_id>   (resolve / reopen toggle)
resolve_issue(issue_id, now1, now2) ==
    /\ UNCHANGED <<employee, session, ambient>>
    /\ flagged' = {}
    /\ IF issue_id \notin DOMAIN issue
       THEN /\ UNCHANGED <<issue, equipment, lastToggle>>
            /\ outcome' = "NotFound"
       ELSE LET toggled == ToggleIssue(issue[issue_id], now1)
                eq == toggled.equipment_id
            IN  /\ issue' = [issue EXCEPT ![issue_id] = toggled]
                /\ IF eq \in DOMAIN equipment
                   THEN /\ equipment' =
                             [equipment EXCEPT ![eq] =
                                 IF toggled.is_resolved
                                 THEN RetireEquipment(equipment[eq], now2)
                                 ELSE ReactivateEquipment(equipment[eq])]
                        /\ lastToggle' =
                             [lastToggle EXCEPT ![eq] =
                                 IF issue[issue_id].is_resolved
                                 THEN "reopened" ELSE "resolved"]
                   ELSE UNCHANGED <<equipment, lastToggle>>
                /\ outcome' = "ok"

\* a delete that undoes the retirement the issue caused
delete_issue_reactivates(issue_id) ==
    /\ UNCHANGED <<employee, session, lastToggle, ambient>>
    /\ flagged' = {}
    /\ IF issue_id \notin DOMAIN issue
       THEN /\ UNCHANGED <<issue, equipment>>
            /\ outcome' = "NotFound"
       ELSE /\ issue' = Delete(issue, issue_id)
            /\ equipment' = [equipment EXCEPT ![issue[issue_id].equipment_id] =
                                ReactivateEquipment(@)]
            /\ outcome' = "ok"

\* /issues/delete/<int:issue_id>
delete_issue(issue_id) ==
    /\ UNCHANGED <<employee, equipment, session, lastToggle, ambient>>
    /\ flagged' = {}
    /\ IF issue_id \notin DOMAIN issue
       THEN /\ issue' = issue
            /\ outcome' = "NotFound"
       ELSE /\ issue' = Delete(issue, issue_id)
            /\ outcome' = "ok"

\* ----------------------------------------------------------------- Views
\* Equipment.query.filter_by(is_retired=False)
ActiveEquipment == {e \in DOMAIN equipment : ~equipment[e].is_retired}

\* Equipment.query.filter_by(employee_id=emp.id, is_retired=False)
Mine(emp_id) == {e \in ActiveEquipment : equipment[e].employee_id = emp_id}

\* near_cutoff = date.today() + timedelta(days=NEAR_EXPIRY_DAYS)
near_cutoff == today + near_days

\* a near list that leaves the cutoff day out
Near_beforeCutoff(listed) == {e \in listed : equipment[e].expiry_date < near_cutoff}

\* near = [e for e in listed if e.expiry_date <= near_cutoff]; the template
\* counts them (near|length) and flags each listed row by the same test
Near(listed) == {e \in listed : equipment[e].expiry_date <= near_cutoff}

\* /
root ==
    /\ outcome' = "ok"
    /\ flagged' = {}
    /\ UNCHANGED <<store, session, lastToggle, ambient>>

\* /me
my_dashboard ==
    /\ IF session.employee_id \in DOMAIN employee
       THEN /\ outcome' = "ok"
            /\ flagged' = Near(Mine(session.employee_id))
       ELSE /\ outcome' = "NotFound"
            /\ flagged' = {}
    /\ UNCHANGED <<store, session, lastToggle, ambient>>

\* /me/equipment
my_equipment ==
    /\ outcome' = "ok"
    /\ flagged' = {}
    /\ UNCHANGED <<store, session, lastToggle, ambient>>

\* return render_template_string(...): a page, nothing written
Rendered ==
    /\ outcome' = "ok"
    /\ flagged' = {}
    /\ UNCHANGED <<store, session, lastToggle, ambient>>

\* /admin
admin_dashboard ==
    /\ outcome' = "ok"
    /\ flagged' = Near(ActiveEquipment)
    /\ UNCHANGED <<store, session, lastToggle, ambient>>

\* /employees
list_employees == Rendered

\* /equipment
list_equipment == Rendered

\* /issues
list_issues == Rendered

Next ==
    \/ admin_required(\E m \in Methods :
            \E n \in FormOf(m, NameInputs), c \in FormOf(m, CodeInputs) :
                add_employee(m, n, c))
    \/ admin_required(\E e \in UrlEmpIds : remove_employee(e))
    \/ admin_required(\E m \in Methods :
            \E n \in FormOf(m, EqNameInputs), x \in FormOf(m, ExpiryInputs) :
                add_equipment(m, n, x))
    \/ admin_required(\E q \in UrlEqIds, m \in Methods :
            \E e \in FormOf(m, EmpIdInputs) : assign_equipment(q, m, e))
    \/ \E q \in UrlEqIds, m \in Methods, t \in Times :
            \E d \in FormOf(m, DescInputs) : raise_issue(q, m, d, t)
    \/ admin_required(\E i \in UrlIssueIds, t1 \in Times, t2 \in Times :
            resolve_issue(i, t1, t2))
    \/ admin_required(\E i \in UrlIssueIds : delete_issue(i))
    \/ root
    \/ login_required(my_dashboard)
    \/ login_required(my_equipment)
    \/ admin_required(admin_dashboard)
    \/ admin_required(list_employees)
    \/ admin_required(list_equipment)
    \/ admin_required(list_issues)
    \/ \E m \in Methods : \E c \in FormOf(m, CodeInputs) : login(m, c)
    \/ logout
    \/ \E m \in Methods : \E p \in FormOf(m, PinInputs) : admin_login(m, p)

Spec == Init /\ [][Next]_vars

\* ------------------------------------------------------- a second browser
\* Flask keeps the session in a cookie of the browser that sent the request:
\* the next request comes from the other browser, with the other cookie
switch_browser ==
    /\ session # other
    /\ session' = other
    /\ other' = session
    /\ UNCHANGED <<store, outcome, lastToggle, today, near_days, flagged, inflight>>

NextBrowsers == Next \/ switch_browser

SpecBrowsers == Init /\ [][NextBrowsers]_vars

\* ------------------------------------------------- near-expiry dashboards
Days == 0..MaxDay
Thresholds == (0 - MaxDay)..MaxDay
ExpiryDays == (0 - MaxDay)..(2 * MaxDay + 1)

\* the dashboards over a stocked store: an employee with one item, a second
\* item in stock, any calendar day, any configured threshold, the browser of
\* the admin or of the employee
InitNear ==
    /\ employee = <<[employee_code |-> <<"E1001">>, name |-> <<"Asha">>]>>
    /\ \E x \in ExpiryDays, y \in ExpiryDays :
            equipment = <<[NewEquipment(<<"Helmet">>, x) EXCEPT !.employee_id = 1],
                          NewEquipment(<<"Helmet">>, y)>>
    /\ issue = <<>>
    /\ lastToggle = <<"none", "none">>
    /\ session \in {[EmptySession EXCEPT !.is_admin = TRUE],
                    [EmptySession EXCEPT !.employee_id = 1, !.employee_name = <<"Asha">>]}
    /\ other = EmptySession
    /\ outcome = "ok"
    /\ today \in Days
    /\ near_days \in Thresholds
    /\ flagged = {}
    /\ inflight = [w \in Threads |-> Idle]

\* midnight: date.today() moves on
day_passes ==
    /\ today < MaxDay
    /\ today' = today + 1
    /\ UNCHANGED <<store, session, outcome, lastToggle, other, near_days, flagged, inflight>>

NextNear ==
    \/ login_required(my_dashboard)
    \/ admin_required(admin_dashboard)
    \/ day_passes

SpecNear == InitNear /\ [][NextNear]_vars

\* ---------------------------------------------------- interleaved threads
\* the attributes of a loaded row that the handler gave another value: the
\* columns the UPDATE of the flush sets
Dirty(loaded, new) == {f \in DOMAIN loaded : loaded[f] # new[f]}

\* UPDATE equipment SET <dirty columns> WHERE id = ...
UpdateEquipment(row, new, dirty) ==
    [name |-> IF "name" \in dirty THEN new.name ELSE row.name,
     expiry_date |-> IF "expiry_date" \in dirty THEN new.expiry_date ELSE row.expiry_date,
     employee_id |-> IF "employee_id" \in dirty THEN new.employee_id ELSE row.employee_id,
     is_retired |-> IF "is_retired" \in dirty THEN new.is_retired ELSE row.is_retired,
     retired_on |-> IF "retired_on" \in dirty THEN new.retired_on ELSE row.retired_on]

\* UPDATE issue SET <dirty columns> WHERE id = ...
UpdateIssue(row, new, dirty) ==
    [equipment_id |-> row.equipment_id,
     description |-> row.description,
     raised_on |-> row.raised_on,
     raised_by_employee_id |-> row.raised_by_employee_id,
     is_resolved |-> IF "is_resolved" \in dirty THEN new.is_resolved ELSE row.is_resolved,
     resolved_on |-> IF "resolved_on" \in dirty THEN new.resolved_on ELSE row.resolved_on]

\* a response that needs no commit: the thread is free again
Answered(w, response) ==
    /\ outcome' = response
    /\ inflight' = [inflight EXCEPT ![w] = Idle]
    /\ UNCHANGED store

\* resolve_issue up to db.session.commit(): the issue and its equipment are
\* loaded and changed in the session of the thread
resolve_issue_read(w, issue_id, now1, now2) ==
    /\ inflight[w] = Idle
    /\ flagged' = {}
    /\ UNCHANGED <<session, lastToggle, other, today, near_days>>
    /\ IF issue_id \notin DOMAIN issue
       THEN Answered(w, "NotFound")
       ELSE LET toggled == ToggleIssue(issue[issue_id], now1)
                eq == toggled.equipment_id
                loaded == equipment[eq]
                changed == IF toggled.is_resolved
                           THEN RetireEquipment(loaded, now2)
                           ELSE ReactivateEquipment(loaded)
            IN  /\ eq \in DOMAIN equipment
                /\ inflight' = [inflight EXCEPT ![w] =
                        [op |-> "resolve",
                         issue_id |-> issue_id,
                         issue_new |-> toggled,
                         issue_dirty |-> Dirty(issue[issue_id], toggled),
                         eq_id |-> eq,
                         eq_new |-> changed,
                         eq_dirty |-> Dirty(loaded, changed)]]
                /\ UNCHANGED <<store, outcome>>

\* assign_equipment up to db.session.commit()
assign_equipment_read(w, eq_id, method, emp_raw) ==
    /\ inflight[w] = Idle
    /\ flagged' = {}
    /\ UNCHANGED <<session, lastToggle, other, today, near_days>>
    /\ IF eq_id \notin DOMAIN equipment
       THEN Answered(w, "NotFound")
       ELSE IF ~CanAssign(equipment[eq_id])
       THEN Answered(w, "ValidationError")
       ELSE IF method = "GET"
       THEN Answered(w, "ok")
       ELSE IF emp_raw = Absent
       THEN Answered(w, "BadRequest")
       ELSE IF ~IsIntText(emp_raw)
       THEN Answered(w, "ServerError")
       ELSE LET changed == [equipment[eq_id] EXCEPT !.employee_id = ParseInt(emp_raw)]
            IN  /\ inflight' = [inflight EXCEPT ![w] =
                        [op |-> "assign",
                         eq_id |-> eq_id,
                         eq_new |-> changed,
                         eq_dirty |-> Dirty(equipment[eq_id], changed)]]
                /\ UNCHANGED <<store, outcome>>

\* raise_issue up to db.session.commit(): the new Issue is pending in the
\* session of the thread
raise_issue_read(w, eq_id, method, desc_raw, now) ==
    /\ inflight[w] = Idle
    /\ flagged' = {}
    /\ UNCHANGED <<session, lastToggle, other, today, near_days>>
    /\ IF eq_id \notin DOMAIN equipment
       THEN Answered(w, "NotFound")
       ELSE IF ~AcceptsIssues(equipment[eq_id])
       THEN Answered(w, "ValidationError")
       ELSE IF method = "GET"
       THEN Answered(w, "ok")
       ELSE IF FormText(desc_raw) = <<>>
       THEN Answered(w, "ValidationError")
       ELSE /\ inflight' = [inflight EXCEPT ![w] =
                    [op |-> "raise",
                     issue_new |-> WithRaiser(NewIssue(eq_id, FormText(desc_raw), now))]]
            /\ UNCHANGED <<store, outcome>>

\* db.session.commit() of thread w: the flush writes the dirty columns of the
\* rows the thread changed and inserts its pending rows; nothing of what the
\* thread read is checked again
commit(w) ==
    /\ inflight[w] # Idle
    /\ inflight' = [inflight EXCEPT ![w] = Idle]
    /\ outcome' = "ok"
    /\ flagged' = {}
    /\ UNCHANGED <<employee, session, other, today, near_days>>
    /\ LET held == inflight[w]
       IN  IF held.op = "resolve"
           THEN /\ issue' = [issue EXCEPT ![held.issue_id] =
                                UpdateIssue(@, held.issue_new, held.issue_dirty)]
                /\ equipment' = [equipment EXCEPT ![held.eq_id] =
                                    UpdateEquipment(@, held.eq_new, held.eq_dirty)]
                /\ lastToggle' = [lastToggle EXCEPT ![held.eq_id] =
                                     IF held.issue_new.is_resolved
                                     THEN "resolved" ELSE "reopened"]
           ELSE IF held.op = "assign"
           THEN /\ equipment' = [equipment EXCEPT ![held.eq_id] =
                                    UpdateEquipment(@, held.eq_new, held.eq_dirty)]
                /\ UNCHANGED <<issue, lastToggle>>
           ELSE /\ NewId(issue) \in IssueIds
                /\ issue' = Insert(issue, NewId(issue), held.issue_new)
                /\ UNCHANGED <<equipment, lastToggle>>

\* the stamp the rows of the stocked store carry
Stamped == 1

\* an Issue row against equipment 1, open or resolved
StockedIssue(resolved) ==
    [NewIssue(1, <<"strap", " ", "broken">>, Stamped) EXCEPT
        !.is_resolved = resolved,
        !.resolved_on = IF resolved THEN Stamped ELSE NULL]

\* one employee, one equipment (held by the employee, in stock or retired)
\* and one or two issues against it, as earlier requests left them; every
\* thread is free; the browser is the admin's or the employee's
InitRace ==
    /\ employee = <<[employee_code |-> <<"E1001">>, name |-> <<"Asha">>]>>
    /\ \E holder \in {NULL, 1}, retired \in BOOLEAN :
          /\ retired => holder = NULL
          /\ equipment = <<[NewEquipment(<<"Helmet">>, 10) EXCEPT
                               !.employee_id = holder,
                               !.is_retired = retired,
                               !.retired_on = IF retired THEN Stamped ELSE NULL]>>
          /\ lastToggle = <<IF retired THEN "resolved" ELSE "reopened">>
    /\ \E r1 \in BOOLEAN, r2 \in BOOLEAN :
          issue \in {<<StockedIssue(r1)>>, <<StockedIssue(r1), StockedIssue(r2)>>}
    /\ session \in {[EmptySession EXCEPT !.is_admin = TRUE],
                    [EmptySession EXCEPT !.employee_id = 1, !.employee_name = <<"Asha">>]}
    /\ other = EmptySession
    /\ outcome = "ok"
    /\ today = 0
    /\ near_days = NEAR_EXPIRY_DAYS
    /\ flagged = {}
    /\ inflight = [w \in Threads |-> Idle]

NextRace ==
    \/ admin_required(\E w \in Threads, i \in UrlIssueIds, t1 \in Times, t2 \in Times :
            resolve_issue_read(w, i, t1, t2))
    \/ admin_required(\E w \in Threads, q \in UrlEqIds, m \in Methods :
            \E e \in FormOf(m, EmpIdInputs) : assign_equipment_read(w, q, m, e))
    \/ \E w \in Threads, q \in UrlEqIds, m \in Methods, t \in Times :
            \E d \in FormOf(m, DescInputs) : raise_issue_read(w, q, m, d, t)
    \/ \E w \in Threads : commit(w)

SpecRace == InitRace /\ [][NextRace]_vars

\* =========================================================== properties
\* rows present before and after the step
KeptEquipment == (DOMAIN equipment) \cap (DOMAIN equipment')

\* the step is the resolve-toggle request of an admin on issue i
ToggleStep(i) == IsAdmin /\ i \in DOMAIN issue /\ \E t1, t2 \in Times : resolve_issue(i, t1, t2)

\* issues filed against equipment e
IssuesOf(e) == {i \in DOMAIN issue : issue[i].equipment_id = e}

\* ------------------------------------------------------------------- C1
\* C1: in every reachable state every Equipment item has is_retired true
\* if and only if its retired_on is non-null.
C1_RetiredIffStamped ==
    \A e \in DOMAIN equipment :
        equipment[e].is_retired <=> (equipment[e].retired_on # NULL)

\* an item that was retired by a resolve and reactivated by a reopen
C1_Witness ==
    \E e \in DOMAIN equipment :
        /\ ~equipment[e].is_retired
        /\ equipment[e].retired_on = NULL
        /\ lastToggle[e] = "reopened"

\* ------------------------------------------------------------------- C2
\* C2: in every reachable state every Issue has is_resolved true if and
\* only if its resolved_on is non-null, and an issue that a step creates
\* starts with is_resolved false and resolved_on null.
C2_ResolvedIffStamped ==
    /\ [](\A i \in DOMAIN issue :
            issue[i].is_resolved <=> (issue[i].resolved_on # NULL))
    /\ [][\A i \in (DOMAIN issue') \ (DOMAIN issue) :
            ~issue'[i].is_resolved /\ issue'[i].resolved_on = NULL]_vars

\* an Open issue next to a Resolved one
C2_Witness ==
    \E i, j \in DOMAIN issue :
        /\ issue[i].is_resolved /\ issue[i].resolved_on # NULL
        /\ ~issue[j].is_resolved /\ issue[j].resolved_on = NULL

\* ------------------------------------------------------------------- C3
\* C3: the resolve-toggle of an Open issue i against equipment x leaves i
\* Resolved and x retired, stamped and unassigned, whatever x's assignment
\* and the other issues against x were.
C3_ResolveRetires ==
    [][\A i \in DOMAIN issue :
        (ToggleStep(i) /\ ~issue[i].is_resolved) =>
            LET x == issue[i].equipment_id
            IN  /\ issue'[i].is_resolved
                /\ issue'[i].resolved_on # NULL
                /\ equipment'[x].is_retired
                /\ equipment'[x].retired_on # NULL
                /\ equipment'[x].employee_id = NULL]_vars

\* a resolved issue whose equipment is retired and unassigned while another
\* issue against the same equipment is still Open
C3_Witness ==
    \E i, j \in DOMAIN issue :
        /\ issue[i].equipment_id = issue[j].equipment_id
        /\ issue[i].is_resolved
        /\ ~issue[j].is_resolved
        /\ equipment[issue[i].equipment_id].is_retired
        /\ equipment[issue[i].equipment_id].employee_id = NULL
        /\ lastToggle[issue[i].equipment_id] = "resolved"

\* ------------------------------------------------------------------- C4
\* C4: the resolve-toggle of a Resolved issue i against equipment x (a
\* reopen) leaves i Open with resolved_on null and x active with retired_on
\* null, also when another issue against x is still Resolved.
C4_ReopenReactivates ==
    [][\A i \in DOMAIN issue :
        (ToggleStep(i) /\ issue[i].is_resolved) =>
            LET x == issue[i].equipment_id
            IN  /\ ~issue'[i].is_resolved
                /\ issue'[i].resolved_on = NULL
                /\ ~equipment'[x].is_retired
                /\ equipment'[x].retired_on = NULL]_vars

\* an Active item whose last toggle was a reopen and that still has a
\* Resolved issue
C4_Witness ==
    \E e \in DOMAIN equipment :
        /\ ~equipment[e].is_retired
        /\ lastToggle[e] = "reopened"
        /\ \E i \in IssuesOf(e) : issue[i].is_resolved

\* ------------------------------------------------------------------- C5
\* C5: an Equipment item is Retired exactly when the most recent
\* resolve-toggle of an issue against it moved that issue from Open to
\* Resolved (Active when none was toggled or the most recent was a reopen),
\* and no step other than a resolve-toggle changes is_retired.
C5_RetiredByLastToggle ==
    /\ [](\A e \in DOMAIN equipment :
            equipment[e].is_retired <=> (lastToggle[e] = "resolved"))
    /\ [][\A e \in KeptEquipment :
            (equipment'[e].is_retired # equipment[e].is_retired) =>
                \E i \in IssuesOf(e) : ToggleStep(i)]_vars

\* an item retired by its most recent toggle while it has an Open issue, so
\* the state of the issues alone does not tell
C5_Witness ==
    \E e \in DOMAIN equipment :
        /\ equipment[e].is_retired
        /\ lastToggle[e] = "resolved"
        /\ \E i \in IssuesOf(e) : ~issue[i].is_resolved

\* ------------------------------------------------------------------- C6
\* C6: the assign operation on a Retired equipment item leaves its
\* employee_id unchanged, and in every reachable state every Retired
\* equipment item has employee_id null.
C6_RetiredUnassigned ==
    /\ [](\A e \in DOMAIN equipment :
            equipment[e].is_retired => equipment[e].employee_id = NULL)
    /\ [][\A q \in DOMAIN equipment :
            ( /\ equipment[q].is_retired
              /\ IsAdmin
              /\ \E m \in Methods, e \in EmpIdInputs : assign_equipment(q, m, e) )
            => equipment'[q].employee_id = equipment[q].employee_id]_vars

\* an admin was turned away while a Retired, unassigned item and an employee
\* to assign it to exist
C6_Witness ==
    /\ IsAdmin
    /\ outcome = "ValidationError"
    /\ DOMAIN employee # {}
    /\ \E e \in DOMAIN equipment :
          equipment[e].is_retired /\ equipment[e].employee_id = NULL

\* ------------------------------------------------------------------- C7
\* C7: a raise-issue request against a Retired equipment item, form or
\* submission, by any principal, creates no Issue and leaves the store
\* unchanged; every Issue is created while its equipment is Active.
C7_RetiredTakesNoIssue ==
    [][ /\ \A q \in DOMAIN equipment :
             ( /\ equipment[q].is_retired
               /\ \E m \in Methods, d \in DescInputs, t \in Times :
                      raise_issue(q, m, d, t) )
             => (UNCHANGED store /\ outcome' = "ValidationError")
        /\ \A i \in (DOMAIN issue') \ (DOMAIN issue) :
             /\ issue'[i].equipment_id \in DOMAIN equipment
             /\ ~equipment[issue'[i].equipment_id].is_retired ]_vars

\* a logged-in employee was turned away while the only item is Retired
C7_Witness ==
    /\ HasEmployee
    /\ outcome = "ValidationError"
    /\ DOMAIN equipment # {}
    /\ \A e \in DOMAIN equipment : equipment[e].is_retired

\* ------------------------------------------------------------------- C8
\* C8: the delete-issue operation removes exactly the named Issue and
\* leaves every Equipment item and every other Issue unchanged; deleting a
\* Resolved issue leaves the equipment it retired Retired.
C8_DeleteOnlyTheIssue ==
    [][\A i \in DOMAIN issue :
        (IsAdmin /\ delete_issue(i)) =>
            /\ DOMAIN issue' = (DOMAIN issue) \ {i}
            /\ \A j \in DOMAIN issue' : issue'[j] = issue[j]
            /\ equipment' = equipment
            /\ employee' = employee]_vars

\* a Retired item none of whose issues is left
C8_Witness ==
    \E e \in DOMAIN equipment :
        /\ equipment[e].is_retired
        /\ equipment[e].retired_on # NULL
        /\ IssuesOf(e) = {}

\* ------------------------------------------------------------------- C9
\* the step added exactly one issue: Open, against q, raised by the
\* session's employee if it names one and by nobody otherwise
RaisedOne(q) ==
    /\ equipment' = equipment
    /\ \E i \in (DOMAIN issue') \ (DOMAIN issue) :
          /\ DOMAIN issue' = (DOMAIN issue) \cup {i}
          /\ \A j \in DOMAIN issue : issue'[j] = issue[j]
          /\ issue'[i].equipment_id = q
          /\ ~issue'[i].is_resolved
          /\ issue'[i].resolved_on = NULL
          /\ issue'[i].raised_by_employee_id =
                IF HasEmployee THEN session.employee_id ELSE NULL

\* C9 as stated: a raise-issue submission with a non-empty description
\* against an existing Active item creates exactly one new Open Issue.
C9_Original ==
    [][\A q \in DOMAIN equipment, d \in DescInputs, t \in Times :
        ( /\ ~equipment[q].is_retired
          /\ d # Absent /\ d # <<>>
          /\ raise_issue(q, "POST", d, t) )
        => RaisedOne(q)]_vars

\* C9 (amended): a raise-issue submission whose description is non-empty
\* after surrounding whitespace is stripped, against an existing Active
\* item, creates exactly one new Issue that is Open and references the
\* item; its raiser is the session's employee id when the session carries
\* one and null otherwise; the equipment is unchanged.
C9_RaiseCreatesOpenIssue ==
    [][\A q \in DOMAIN equipment, d \in DescInputs, t \in Times :
        ( /\ ~equipment[q].is_retired
          /\ FormText(d) # <<>>
          /\ raise_issue(q, "POST", d, t) )
        => RaisedOne(q)]_vars

\* an Open issue raised by the employee of the session next to one raised
\* by nobody
C9_Witness ==
    /\ HasEmployee
    /\ outcome = "ok"
    /\ \E i, j \in DOMAIN issue :
          /\ issue[i].raised_by_employee_id = session.employee_id
          /\ ~issue[i].is_resolved
          /\ issue[j].raised_by_employee_id = NULL

\* ------------------------------------------------------------------ C10
\* C10: an add-employee submission whose employee_code an existing employee
\* holds is rejected as a validation conflict and leaves the employee table
\* unchanged; in every reachable state no two employees share a code.
C10_UniqueEmployeeCode ==
    /\ [](\A a, b \in DOMAIN employee :
            a # b => employee[a].employee_code # employee[b].employee_code)
    /\ [][IsAdmin =>
            \A c \in CodeInputs :
                (\E e \in DOMAIN employee : employee[e].employee_code = FormText(c))
                => \A n \in NameInputs :
                       add_employee("POST", n, c)
                       => (employee' = employee /\ outcome' = "ValidationError")]_vars

\* an admin was turned away while two employees with different codes exist
C10_Witness ==
    /\ IsAdmin
    /\ outcome = "ValidationError"
    /\ \E a, b \in DOMAIN employee :
          a # b /\ employee[a].employee_code # employee[b].employee_code


\* C11: remove-employee on an existing employee E deletes only E: every other
\* employee row stays as it was, every equipment row stays with its
\* is_retired and retired_on unchanged, the rows that were assigned to E have
\* employee_id NULL, no equipment row references E afterwards, and no
\* equipment or issue row is deleted.
C11_RemoveOnlyTheEmployee ==
    [][\A emp \in UrlEmpIds :
          (IsAdmin /\ emp \in DOMAIN employee /\ remove_employee(emp)) =>
              /\ DOMAIN employee' = (DOMAIN employee) \ {emp}
              /\ \A k \in DOMAIN employee' : employee'[k] = employee[k]
              /\ DOMAIN equipment' = DOMAIN equipment
              /\ \A e \in DOMAIN equipment :
                    /\ equipment'[e].is_retired = equipment[e].is_retired
                    /\ equipment'[e].retired_on = equipment[e].retired_on
                    /\ equipment[e].employee_id = emp => equipment'[e].employee_id = NULL
                    /\ equipment'[e].employee_id # emp
              /\ DOMAIN issue' = DOMAIN issue]_vars

\* employee 1 has been removed while employee 2 stays, and the equipment is
\* still there, active and unassigned
C11_Witness ==
    /\ DOMAIN employee = {2}
    /\ outcome = "ok"
    /\ \E e \in DOMAIN equipment :
          /\ equipment[e].employee_id = NULL
          /\ ~equipment[e].is_retired


\* C12: an assign request changes the equipment's employee_id only when the
\* equipment exists, is not retired and the submitted employee id is that of
\* an existing employee (a submission naming no existing employee leaves the
\* assignment unchanged), so every non-NULL Equipment.employee_id references
\* an existing employee.
C12_AssignOnlyToExistingEmployee ==
    /\ [](\A e \in DOMAIN equipment :
              equipment[e].employee_id # NULL => equipment[e].employee_id \in DOMAIN employee)
    /\ [][\A q \in UrlEqIds, r \in EmpIdInputs :
              (IsAdmin /\ assign_equipment(q, "POST", r) /\ equipment' # equipment) =>
                  /\ q \in DOMAIN equipment
                  /\ ~equipment[q].is_retired
                  /\ IsIntText(r)
                  /\ ParseInt(r) \in DOMAIN employee]_vars


\* the step is a request to one of the admin-guarded routes
AdminGuarded ==
    \/ admin_required(list_employees)
    \/ admin_required(\E m \in Methods :
            \E n \in FormOf(m, NameInputs), c \in FormOf(m, CodeInputs) :
                add_employee(m, n, c))
    \/ admin_required(\E e \in UrlEmpIds : remove_employee(e))
    \/ admin_required(list_equipment)
    \/ admin_required(\E m \in Methods :
            \E n \in FormOf(m, EqNameInputs), x \in FormOf(m, ExpiryInputs) :
                add_equipment(m, n, x))
    \/ admin_required(\E q \in UrlEqIds, m \in Methods :
            \E e \in FormOf(m, EmpIdInputs) : assign_equipment(q, m, e))
    \/ admin_required(list_issues)
    \/ admin_required(\E i \in UrlIssueIds, t1 \in Times, t2 \in Times :
            resolve_issue(i, t1, t2))
    \/ admin_required(\E i \in UrlIssueIds : delete_issue(i))
    \/ admin_required(admin_dashboard)

\* C13: a request to an admin-guarded operation (list/add/remove employee,
\* list/add/assign equipment, list issues, resolve-toggle, delete issue,
\* admin dashboard) by a session without the admin flag, a logged-in employee
\* included, is redirected to the admin login and leaves the Employee,
\* Equipment and Issue tables unchanged.
C13_AdminGuardRefuses ==
    [][(~IsAdmin /\ AdminGuarded) =>
          /\ outcome' = "Unauthorized:admin_login"
          /\ UNCHANGED store]_vars

\* a logged-in employee has just been sent to the admin login, with rows in
\* all three tables
C13_Witness ==
    /\ HasEmployee
    /\ ~IsAdmin
    /\ outcome = "Unauthorized:admin_login"
    /\ DOMAIN equipment # {}
    /\ DOMAIN issue # {}


\* the employee login request with code c succeeds
LoginSucceeds(m, c) ==
    m = "POST" /\ \E e \in DOMAIN employee : employee[e].employee_code = FormText(c)

\* the admin login request with pin p succeeds
AdminLoginSucceeds(m, p) == m = "POST" /\ FormText(p) = ADMIN_PIN

\* C14: through every sequence of employee-login, admin-login and logout
\* requests, successful or failed, the session never carries an employee
\* identity together with the admin flag: a successful login as one kind
\* clears the other, a failed login leaves the session as it was, and a
\* logout leaves neither.
C14_OneIdentityPerSession ==
    /\ [](~(HasEmployee /\ IsAdmin))
    /\ [][/\ \A m \in Methods, c \in CodeInputs :
                IF LoginSucceeds(m, c)
                THEN \/ /\ session'.employee_id \in DOMAIN employee
                        /\ employee[session'.employee_id].employee_code = FormText(c)
                        /\ ~session'.is_admin
                     \/ ~login(m, c)
                ELSE session' = session \/ ~login(m, c)
          /\ \A m \in Methods, p \in PinInputs :
                IF AdminLoginSucceeds(m, p)
                THEN (session'.is_admin /\ session'.employee_id = NULL) \/ ~admin_login(m, p)
                ELSE session' = session \/ ~admin_login(m, p)
          /\ (~session'.is_admin /\ session'.employee_id = NULL) \/ ~logout]_vars

\* an employee session after a rejected submission, in a store that an admin
\* session filled before
C14_Witness ==
    /\ HasEmployee
    /\ ~IsAdmin
    /\ DOMAIN equipment # {}
    /\ outcome = "ValidationError"


\* the step is a dashboard request that rendered a page; its equipment list
DashboardOf(listed) ==
    \/ /\ IsAdmin /\ admin_dashboard
       /\ listed = ActiveEquipment
    \/ /\ HasEmployee /\ session.employee_id \in DOMAIN employee /\ my_dashboard
       /\ listed = Mine(session.employee_id)

\* the claim as the specification words it: past expiry is NearExpiry for
\* every integer threshold
C15_Original ==
    [][\A listed \in SUBSET DOMAIN equipment :
          DashboardOf(listed) =>
              /\ UNCHANGED store
              /\ flagged' \subseteq listed
              /\ \A e \in listed :
                    LET x == equipment[e].expiry_date
                    IN  /\ e \in flagged' <=> x <= today + near_days
                        /\ x = today + near_days => e \in flagged'
                        /\ x = today + near_days + 1 => e \notin flagged'
                        /\ x < today => e \in flagged']_vars

\* C15: for every date T = today, integer threshold D = near_days and active
\* equipment item listed on the employee or the admin dashboard, the item is
\* counted and flagged NearExpiry exactly when expiry_date <= T + D: an item
\* with expiry_date = T + D is NearExpiry, one with expiry_date = T + D + 1
\* is Ok, and, when D >= 0, one whose expiry date is already past is
\* NearExpiry; the classification depends on (T, D, expiry_date) only and the
\* dashboards change no stored state.
C15_NearExpiryBoundary ==
    [][\A listed \in SUBSET DOMAIN equipment :
          DashboardOf(listed) =>
              /\ UNCHANGED store
              /\ flagged' \subseteq listed
              /\ \A e \in listed :
                    LET x == equipment[e].expiry_date
                    IN  /\ e \in flagged' <=> x <= today + near_days
                        /\ x = today + near_days => e \in flagged'
                        /\ x = today + near_days + 1 => e \notin flagged'
                        /\ (near_days >= 0 /\ x < today) => e \in flagged']_vars

\* the admin dashboard has flagged the item that expires on the cutoff day
\* and not the item that expires the day after
C15_Witness ==
    /\ IsAdmin
    /\ ActiveEquipment = {1, 2}
    /\ equipment[1].expiry_date = today + near_days
    /\ equipment[2].expiry_date = today + near_days + 1
    /\ flagged = {1}


\* C16: for equipment X assigned to an employee E with an open issue I, the
\* resolve-toggle on I takes X off E's dashboard list and off the active
\* equipment list; the toggle on I that follows (reopen) makes I open again
\* and puts X back on the active equipment list, but unassigned: employee_id
\* is NULL and X is on no employee's dashboard list.
C16_ReopenDoesNotReassign ==
    [][\A i \in DOMAIN issue :
          LET x == issue[i].equipment_id
          IN  (ToggleStep(i) /\ x \in DOMAIN equipment) =>
                  /\ (/\ ~issue[i].is_resolved
                      /\ ~equipment[x].is_retired
                      /\ equipment[x].employee_id \in DOMAIN employee)
                     => /\ issue'[i].is_resolved
                        /\ x \notin Mine(equipment[x].employee_id)'
                        /\ x \notin ActiveEquipment'
                  /\ (/\ issue[i].is_resolved
                      /\ equipment[x].is_retired)
                     => /\ ~issue'[i].is_resolved
                        /\ x \in ActiveEquipment'
                        /\ equipment'[x].employee_id = NULL
                        /\ \A e \in DOMAIN employee : x \notin Mine(e)']_vars

\* the issue has been resolved and reopened: it is open, the equipment is
\* active again and assigned to nobody while its former holder still exists
C16_Witness ==
    \E i \in DOMAIN issue :
        LET x == issue[i].equipment_id
        IN  /\ ~issue[i].is_resolved
            /\ issue[i].raised_by_employee_id \in DOMAIN employee
            /\ x \in ActiveEquipment
            /\ lastToggle[x] = "reopened"
            /\ equipment[x].employee_id = NULL


\* C17: every operation on every input (an add-equipment submission whose
\* expiry_date is not a YYYY-MM-DD date and an assign submission whose
\* employee_id is empty or not a number included) ends in one of the
\* recoverable outcomes success, NotFound, ValidationError or Unauthorized;
\* none ends in an unhandled error.
C17_EveryOutcomeRecoverable ==
    outcome \in {"ok", "NotFound", "ValidationError",
                 "Unauthorized:admin_login", "Unauthorized:login"}


\* the submitted text is missing, empty or made of blanks only
IsBlank(raw) == raw = Absent \/ \A k \in 1..Len(raw) : raw[k] = " "

\* the step persists nothing
PersistsNothing == UNCHANGED store

\* C18: an operation that ends in ValidationError or NotFound leaves the
\* three tables unchanged: add-employee with an empty or whitespace-only name
\* or code, add-equipment with an empty name or a missing expiry date,
\* raise-issue with an empty or whitespace-only description, and assign,
\* raise, resolve, delete and remove naming a non-existent id persist nothing.
C18_RejectionsPersistNothing ==
    [][/\ outcome' \in {"ValidationError", "NotFound"} => PersistsNothing
       /\ \A n \in NameInputs, c \in CodeInputs :
             (IsAdmin /\ (IsBlank(n) \/ IsBlank(c)) /\ add_employee("POST", n, c))
                 => (outcome' = "ValidationError" /\ PersistsNothing)
       /\ \A n \in EqNameInputs, x \in ExpiryInputs :
             (IsAdmin /\ (IsBlank(n) \/ x \in {Absent, <<>>}) /\ add_equipment("POST", n, x))
                 => (outcome' = "ValidationError" /\ PersistsNothing)
       /\ \A q \in DOMAIN equipment, d \in DescInputs, t \in Times :
             (IsBlank(d) /\ raise_issue(q, "POST", d, t))
                 => (outcome' = "ValidationError" /\ PersistsNothing)
       /\ \A q \in UrlEqIds \ DOMAIN equipment, m \in Methods, t \in Times :
             /\ \A r \in FormOf(m, EmpIdInputs) :
                   (IsAdmin /\ assign_equipment(q, m, r))
                       => (outcome' = "NotFound" /\ PersistsNothing)
             /\ \A d \in FormOf(m, DescInputs) :
                   raise_issue(q, m, d, t)
                       => (outcome' = "NotFound" /\ PersistsNothing)
       /\ \A q \in DOMAIN equipment, n \in UrlEmpIds \ DOMAIN employee :
             (IsAdmin /\ assign_equipment(q, "POST", <<"int", n>>)) => PersistsNothing
       /\ \A i \in UrlIssueIds \ DOMAIN issue :
             /\ (IsAdmin /\ \E t1, t2 \in Times : resolve_issue(i, t1, t2))
                   => (outcome' = "NotFound" /\ PersistsNothing)
             /\ (IsAdmin /\ delete_issue(i))
                   => (outcome' = "NotFound" /\ PersistsNothing)
       /\ \A e \in UrlEmpIds \ DOMAIN employee :
             (IsAdmin /\ remove_employee(e))
                 => (outcome' = "NotFound" /\ PersistsNothing)]_vars


\* C19: once an equipment X is retired and every issue filed against X has
\* been deleted, no operation makes X active again: X stays retired, and
\* without an issue against it, whatever request comes next.
C19_RetiredForGood ==
    [][\A x \in DOMAIN equipment :
          (equipment[x].is_retired /\ IssuesOf(x) = {}) =>
              /\ x \in DOMAIN equipment'
              /\ equipment'[x].is_retired
              /\ \A i \in DOMAIN issue' : issue'[i].equipment_id # x]_vars

\* a retired equipment whose issues are all deleted has just refused a
\* request
C19_Witness ==
    \E x \in DOMAIN equipment :
        /\ equipment[x].is_retired
        /\ IssuesOf(x) = {}
        /\ lastToggle[x] = "resolved"
        /\ outcome = "ValidationError"


\* C20: in every reachable state the raiser reference of every issue
\* (raised_by_employee_id) is NULL or the id of an existing employee, also
\* after an employee logs in, is removed by the admin and then raises an
\* issue with the session that still carries the removed employee's id.
C20_RaiserExists ==
    \A i \in DOMAIN issue :
        \/ issue[i].raised_by_employee_id = NULL
        \/ issue[i].raised_by_employee_id \in DOMAIN employee


\* every thread has committed or answered
AllCommitted == \A w \in Threads : inflight[w] = Idle

\* C21: when requests run concurrently, each reading its rows and later
\* committing only the columns it changed, with no locking, the stored state
\* after the commits satisfies the lifecycle invariants for every
\* interleaving: is_retired iff retired_on is not NULL, is_resolved iff
\* resolved_on is not NULL, a retired equipment has employee_id NULL, and no
\* issue is created against an equipment that is retired at commit time.
C21_RacesKeepLifecycleInvariants ==
    /\ [](AllCommitted =>
            /\ \A e \in DOMAIN equipment :
                  /\ equipment[e].is_retired <=> equipment[e].retired_on # NULL
                  /\ equipment[e].is_retired => equipment[e].employee_id = NULL
            /\ \A i \in DOMAIN issue :
                  issue[i].is_resolved <=> issue[i].resolved_on # NULL)
    /\ [][\A i \in (DOMAIN issue') \ (DOMAIN issue) :
              ~equipment[issue'[i].equipment_id].is_retired]_vars

====
